---- MODULE Spec2Model ----
(***************************************************************************)
(* PackageCompatibility.js: the whitelist/blacklist matcher isValid, the   *)
(* per-manifest compatibility check and the batch driver init.             *)
(*                                                                         *)
(* Strings that isValid inspects are modelled as sequences of characters,  *)
(* so that item[0] === '!' and item.slice(1) are computed, not assumed.    *)
(***************************************************************************)
EXTENDS Integers, Sequences, FiniteSets, TLC

VARIABLES
  \* ---- matcher harness (SpecValid): one call isValid(items, actual)
  items,      \* the declarations passed to isValid
  actual,     \* the actual value passed to isValid
  called,     \* TRUE once isValid has returned
  result,     \* the boolean isValid returned
  \* ---- checker and batch driver (Spec)
  n,          \* number of manifests resolver.getManifests() returned
  idx,        \* position of the for-of loop of init (1-based)
  info,       \* the manifest the loop handed to check
  pc,         \* position in init/check
  eidx,       \* position of the for-of loop over entries(info.engines)
  didIgnore,  \* check's local didIgnore
  didError,   \* check's local didError
  log,        \* the reporter.warn/info/error calls of the current call of check, in order
  ignored,    \* indices of the manifests whose reference got addIgnore(true)
  status,     \* per manifest: was check invoked on it, did it return
  thrown      \* the exception that left init, or "none"

matcherVars == <<items, actual, called, result>>
checkerVars == <<n, idx, info, pc, eidx, didIgnore, didError, log, ignored, status, thrown>>
vars == <<items, actual, called, result,
          n, idx, info, pc, eidx, didIgnore, didError, log, ignored, status, thrown>>

----------------------------------------------------------------------------
\* Bounds of the model.

\* longest string (in characters) given to isValid
MaxTokLen == 2
\* longest declaration list given to isValid
MaxLen == 3
\* largest batch the resolver returns
MaxManifests == 3
\* largest number of entries of a manifest's engines mapping
MaxEngines == 2

----------------------------------------------------------------------------
\* Strings.

Alphabet == {"!", "a"}

SeqsUpTo(S, k) == UNION {[1..m -> S] : m \in 0..k}

Tokens == SeqsUpTo(Alphabet, MaxTokLen)

Declarations == SeqsUpTo(Tokens, MaxLen)

\* item[0] === '!'
IsBang(item) == Len(item) > 0 /\ item[1] = "!"

\* mutant: the '!' is not stripped before the comparison
Slice1Whole(item) == item

\* item.slice(1)
Slice1(item) == IF Len(item) = 0 THEN <<>> ELSE Tail(item)

----------------------------------------------------------------------------
\* isValid: the loop from position i on, with the local isBlacklist.

\* mutant: a blacklist entry that does not deny actual accepts it at once
RECURSIVE IsValidFromEager(_, _, _, _)
IsValidFromEager(its, act, i, isBlacklist) ==
  IF i > Len(its) THEN isBlacklist
  ELSE IF its[i] = act THEN TRUE
  ELSE IF IsBang(its[i])
       THEN act # Slice1(its[i])
       ELSE IsValidFromEager(its, act, i + 1, isBlacklist)

\* mutant: the loop stops one entry short
RECURSIVE IsValidFromSkipLast(_, _, _, _)
IsValidFromSkipLast(its, act, i, isBlacklist) ==
  IF i >= Len(its) THEN isBlacklist
  ELSE IF its[i] = act THEN TRUE
  ELSE IF IsBang(its[i])
       THEN IF act = Slice1(its[i]) THEN FALSE
            ELSE IsValidFromSkipLast(its, act, i + 1, TRUE)
       ELSE IsValidFromSkipLast(its, act, i + 1, isBlacklist)

RECURSIVE IsValidFrom(_, _, _, _)
IsValidFrom(its, act, i, isBlacklist) ==
  IF i > Len(its) THEN isBlacklist
  ELSE IF its[i] = act THEN TRUE
  ELSE IF IsBang(its[i])
       THEN IF act = Slice1(its[i]) THEN FALSE
            ELSE IsValidFrom(its, act, i + 1, TRUE)
       ELSE IsValidFrom(its, act, i + 1, isBlacklist)

\* mutant: any entry denying actual rejects it, wherever it stands
isValidDenyFirst(its, act) ==
  IF \E i \in 1..Len(its) : IsBang(its[i]) /\ act = Slice1(its[i])
  THEN FALSE
  ELSE IsValidFrom(its, act, 1, FALSE)

isValid(its, act) == IsValidFrom(its, act, 1, FALSE)

----------------------------------------------------------------------------
\* The matcher harness: isValid called once on arbitrary arguments.

CallIsValid ==
  /\ ~called
  /\ called' = TRUE
  /\ result' = isValid(items, actual)
  /\ UNCHANGED <<items, actual>>
  /\ UNCHANGED checkerVars

----------------------------------------------------------------------------
\* The environment (process.platform, process.arch, process.versions).

Platform == <<"a">>
Arch == <<"a", "a">>

\* process.versions, each version by its major number
ProcessVersions == [node |-> 18, v8 |-> 10]

\* semver.satisfies(actual, range) for the ranges ">=N.0.0", a range being
\* represented by its N
Satisfies(version, range) == version >= range

aliases == [iojs |-> "node"]

\* mutant: teleport is missing from the list
ignoreNpmOnly == <<"npm">>

ignore == <<"npm", "teleport">>

\* _.includes(ignore, name)
Includes(arr, x) == \E i \in 1..Len(arr) : arr[i] = x

\* if (aliases[name]) name = aliases[name]
Resolve(name) == IF name \in DOMAIN aliases THEN aliases[name] ELSE name

----------------------------------------------------------------------------
\* Manifests.

Bang(t) == <<"!">> \o t

NoList == [isArray |-> FALSE, list |-> <<>>]
List(l) == [isArray |-> TRUE, list |-> l]

\* info.os: absent, matching the platform, or denying it
OsChoices == {NoList, List(<<Platform>>), List(<<Bang(Platform)>>)}

\* info.cpu: absent, matching the architecture, or not listing it
CpuChoices == {NoList, List(<<Bang(Platform), Arch>>), List(<<Platform>>)}

\* info.reference: missing, or a reference with its optional flag
NoRef == [present |-> FALSE, optional |-> FALSE]
Ref(opt) == [present |-> TRUE, optional |-> opt]
RefChoices == {NoRef, Ref(TRUE), Ref(FALSE)}

\* one entry of info.engines: the engine's name and its range ">=N.0.0"
Entry(nm, r) == [name |-> nm, range |-> r]
EngineEntries ==
  {Entry("node", 1), Entry("node", 99), Entry("iojs", 1), Entry("iojs", 99),
   Entry("npm", 1), Entry("teleport", 1), Entry("foo", 1)}

\* the keys of an object are distinct
DistinctNames(es) == \A i, j \in 1..Len(es) : i # j => es[i].name # es[j].name

NoEngines == [isPlainObject |-> FALSE, entries |-> <<>>]
EngineChoices ==
  {NoEngines} \cup
  {[isPlainObject |-> TRUE, entries |-> es] :
     es \in {e \in SeqsUpTo(EngineEntries, MaxEngines) : DistinctNames(e)}}

Manifests ==
  [reference : RefChoices, os : OsChoices, cpu : CpuChoices, engines : EngineChoices]

NoInfo == [reference |-> NoRef, os |-> NoList, cpu |-> NoList, engines |-> NoEngines]

----------------------------------------------------------------------------
\* Reporter messages. pkg stands for `${info.name}@${info.version}`.

Msg(lvl, kind, nm, r) == [level |-> lvl, pkg |-> idx, kind |-> kind, name |-> nm, range |-> r]

\* `The platform ${process.platform} is incompatible with this module.`
OsMsg == [kind |-> "platform", name |-> "-", range |-> 0]
\* `The CPU architecture ${process.arch} is incompatible with this module.`
CpuMsg == [kind |-> "arch", name |-> "-", range |-> 0]
\* `The engine ${name} is incompatible with this module. Expected version ${range}.`
EngineMsg(nm, r) == [kind |-> "engine", name |-> nm, range |-> r]

\* static isValidPlatform / isValidArch
isValidPlatform(platforms) == isValid(platforms, Platform)
isValidArch(archs) == isValid(archs, Arch)

----------------------------------------------------------------------------
\* check's closure pushError(msg). An invariant() failure leaves check and,
\* uncaught, init.

\* mutant: the reference of an optional manifest is not marked
PushErrorNoIgnore(msg) ==
  IF ~info.reference.present
  THEN /\ thrown' = "Invariant"
       /\ UNCHANGED <<log, ignored, didIgnore, didError>>
  ELSE IF info.reference.optional
  THEN /\ log' = log \o <<Msg("warn", msg.kind, msg.name, msg.range)>>
                     \o (IF ~didIgnore THEN <<Msg("info", "excluded", "-", 0)>> ELSE <<>>)
       /\ didIgnore' = TRUE
       /\ UNCHANGED <<ignored, didError, thrown>>
  ELSE /\ log' = Append(log, Msg("error", msg.kind, msg.name, msg.range))
       /\ didError' = TRUE
       /\ UNCHANGED <<ignored, didIgnore, thrown>>

\* mutant: didIgnore is never set, the exclusion is announced every time
PushErrorAlwaysInfo(msg) ==
  IF ~info.reference.present
  THEN /\ thrown' = "Invariant"
       /\ UNCHANGED <<log, ignored, didIgnore, didError>>
  ELSE IF info.reference.optional
  THEN /\ ignored' = ignored \cup {idx}
       /\ log' = log \o <<Msg("warn", msg.kind, msg.name, msg.range)>>
                     \o (IF ~didIgnore THEN <<Msg("info", "excluded", "-", 0)>> ELSE <<>>)
       /\ UNCHANGED <<didIgnore, didError, thrown>>
  ELSE /\ log' = Append(log, Msg("error", msg.kind, msg.name, msg.range))
       /\ didError' = TRUE
       /\ UNCHANGED <<ignored, didIgnore, thrown>>

\* mutant: no invariant(ref), a missing reference counts as not optional
PushErrorNoInvariant(msg) ==
  IF info.reference.present /\ info.reference.optional
  THEN /\ ignored' = ignored \cup {idx}
       /\ log' = log \o <<Msg("warn", msg.kind, msg.name, msg.range)>>
                     \o (IF ~didIgnore THEN <<Msg("info", "excluded", "-", 0)>> ELSE <<>>)
       /\ didIgnore' = TRUE
       /\ UNCHANGED <<didError, thrown>>
  ELSE /\ log' = Append(log, Msg("error", msg.kind, msg.name, msg.range))
       /\ didError' = TRUE
       /\ UNCHANGED <<ignored, didIgnore, thrown>>

PushError(msg) ==
  IF ~info.reference.present
  THEN /\ thrown' = "Invariant"
       /\ UNCHANGED <<log, ignored, didIgnore, didError>>
  ELSE IF info.reference.optional
  THEN /\ ignored' = ignored \cup {idx}
       /\ log' = log \o <<Msg("warn", msg.kind, msg.name, msg.range)>>
                     \o (IF ~didIgnore THEN <<Msg("info", "excluded", "-", 0)>> ELSE <<>>)
       /\ didIgnore' = TRUE
       /\ UNCHANGED <<didError, thrown>>
  ELSE /\ log' = Append(log, Msg("error", msg.kind, msg.name, msg.range))
       /\ didError' = TRUE
       /\ UNCHANGED <<ignored, didIgnore, thrown>>

NoPush == UNCHANGED <<log, ignored, didIgnore, didError, thrown>>

\* where control is after a statement of check: at the next statement, or
\* out of check and init when the statement threw
After(next) == IF thrown' = "none" THEN next ELSE "failed"

----------------------------------------------------------------------------
\* init: infos = this.resolver.getManifests(); the batch size is fixed here,
\* each manifest is read when the for-of loop reaches it.

GetManifests ==
  /\ pc = "init"
  /\ n' \in 0..MaxManifests
  /\ pc' = "loop"
  /\ UNCHANGED <<idx, info, eidx, didIgnore, didError, log, ignored, status, thrown>>
  /\ UNCHANGED matcherVars

\* for (const info of infos): the iterator advances; the locals of the call
\* of check that returned are gone
LoopNext ==
  /\ pc = "loop"
  /\ idx < n
  /\ idx' = idx + 1
  /\ info' = NoInfo
  /\ didIgnore' = FALSE
  /\ didError' = FALSE
  /\ eidx' = 1
  /\ log' = <<>>
  /\ pc' = "call"
  /\ UNCHANGED <<n, ignored, status, thrown>>
  /\ UNCHANGED matcherVars

\* this.check(info): entry of check, on whatever manifest the resolver put
\* at this position
CallCheck ==
  /\ pc = "call"
  /\ info' \in Manifests
  /\ status' = [status EXCEPT ![idx] = "checking"]
  /\ pc' = "os"
  /\ UNCHANGED <<n, idx, eidx, didIgnore, didError, log, ignored, thrown>>
  /\ UNCHANGED matcherVars

\* the loop of init is exhausted: the promise resolves
InitReturn ==
  /\ pc = "loop"
  /\ idx >= n
  /\ pc' = "done"
  /\ UNCHANGED <<n, idx, info, eidx, didIgnore, didError, log, ignored, status, thrown>>
  /\ UNCHANGED matcherVars

\* if (Array.isArray(info.os)) ...
CheckOs ==
  /\ pc = "os"
  /\ IF info.os.isArray /\ ~isValidPlatform(info.os.list)
     THEN PushError(OsMsg)
     ELSE NoPush
  /\ pc' = After("cpu")
  /\ UNCHANGED <<n, idx, info, eidx, status>>
  /\ UNCHANGED matcherVars

\* mutant: the CPU check is skipped once the OS check has failed
CheckCpuShort ==
  /\ pc = "cpu"
  /\ IF ~didError /\ info.cpu.isArray /\ ~isValidArch(info.cpu.list)
     THEN PushError(CpuMsg)
     ELSE NoPush
  /\ pc' = After("engines")
  /\ UNCHANGED <<n, idx, info, eidx, status>>
  /\ UNCHANGED matcherVars

\* if (Array.isArray(info.cpu)) ...
CheckCpu ==
  /\ pc = "cpu"
  /\ IF info.cpu.isArray /\ ~isValidArch(info.cpu.list)
     THEN PushError(CpuMsg)
     ELSE NoPush
  /\ pc' = After("engines")
  /\ UNCHANGED <<n, idx, info, eidx, status>>
  /\ UNCHANGED matcherVars

\* one iteration of for (let [name, range] of entries(info.engines))
CheckEngine ==
  /\ pc = "engines"
  /\ info.engines.isPlainObject
  /\ eidx <= Len(info.engines.entries)
  /\ LET e == info.engines.entries[eidx]
         name == Resolve(e.name)
     IN IF name \in DOMAIN ProcessVersions
        THEN IF ~Satisfies(ProcessVersions[name], e.range)
             THEN PushError(EngineMsg(name, e.range))
             ELSE NoPush
        ELSE IF ~Includes(ignore, name)
             THEN /\ log' = Append(log, Msg("warn", "invalid", name, 0))
                  /\ UNCHANGED <<ignored, didIgnore, didError, thrown>>
             ELSE NoPush
  /\ pc' = After("engines")
  /\ eidx' = eidx + 1
  /\ UNCHANGED <<n, idx, info, status>>
  /\ UNCHANGED matcherVars

\* mutant: init catches the failure of check and goes on
CheckEndCaught ==
  /\ pc = "engines"
  /\ ~info.engines.isPlainObject \/ eidx > Len(info.engines.entries)
  /\ thrown' = IF didError THEN "MessageError" ELSE thrown
  /\ status' = [status EXCEPT ![idx] = "returned"]
  /\ pc' = "loop"
  /\ UNCHANGED <<n, idx, info, eidx, didIgnore, didError, log, ignored>>
  /\ UNCHANGED matcherVars

\* if (didError) throw new MessageError('Found incompatible module'),
\* else check returns to the loop of init
CheckEnd ==
  /\ pc = "engines"
  /\ ~info.engines.isPlainObject \/ eidx > Len(info.engines.entries)
  /\ IF didError
     THEN /\ thrown' = "MessageError"
          /\ pc' = "failed"
          /\ UNCHANGED status
     ELSE /\ status' = [status EXCEPT ![idx] = "returned"]
          /\ pc' = "loop"
          /\ UNCHANGED thrown
  /\ UNCHANGED <<n, idx, info, eidx, didIgnore, didError, log, ignored>>
  /\ UNCHANGED matcherVars

----------------------------------------------------------------------------
\* Specifications.

MatcherIdle ==
  /\ items = <<>>
  /\ actual = <<>>
  /\ called = FALSE
  /\ result = FALSE

CheckerIdle ==
  /\ n = 0
  /\ idx = 0
  /\ info = NoInfo
  /\ pc = "init"
  /\ eidx = 1
  /\ didIgnore = FALSE
  /\ didError = FALSE
  /\ log = <<>>
  /\ ignored = {}
  /\ status = [i \in 1..MaxManifests |-> "unchecked"]
  /\ thrown = "none"

\* the checker and the batch driver
Init == MatcherIdle /\ CheckerIdle

Next ==
  \/ GetManifests
  \/ LoopNext
  \/ CallCheck
  \/ CheckOs
  \/ CheckCpu
  \/ CheckEngine
  \/ CheckEnd
  \/ InitReturn

Spec == Init /\ [][Next]_vars

\* the matcher alone, on every declaration list and actual value in the bounds
InitValid ==
  /\ items \in Declarations
  /\ actual \in Tokens
  /\ called = FALSE
  /\ result = FALSE
  /\ CheckerIdle

NextValid == CallIsValid

SpecValid == InitValid /\ [][NextValid]_vars

----------------------------------------------------------------------------
\* Vocabulary of the properties.

AllBang(its) == \A i \in 1..Len(its) : IsBang(its[i])
AllPlain(its) == \A i \in 1..Len(its) : ~IsBang(its[i])
Has(its, t) == \E i \in 1..Len(its) : its[i] = t
\* some entry is '!' followed by act
Denied(its, act) == \E i \in 1..Len(its) : its[i] = <<"!">> \o act
PlainMatch(its, act) == \E i \in 1..Len(its) : ~IsBang(its[i]) /\ its[i] = act
FirstAt(its, t) == CHOOSE i \in 1..Len(its) : its[i] = t /\ \A j \in 1..(i - 1) : its[j] # t
Perms(its) == {[i \in 1..Len(its) |-> its[q[i]]] : q \in Permutations(1..Len(its))}

\* a call of check has been entered on manifest idx
CallStarted == idx >= 1 /\ status[idx] # "unchecked"
\* the call of check on manifest idx has returned normally
Returned == idx >= 1 /\ status[idx] = "returned"
Optional == CallStarted /\ info.reference.present /\ info.reference.optional
Required == CallStarted /\ info.reference.present /\ ~info.reference.optional
Missing == CallStarted /\ ~info.reference.present

\* the violations a manifest has in this environment, in the order of check
OsViolation(m) == m.os.isArray /\ ~isValid(m.os.list, Platform)
CpuViolation(m) == m.cpu.isArray /\ ~isValid(m.cpu.list, Arch)
EngineKnown(e) == Resolve(e.name) \in DOMAIN ProcessVersions
EngineViolation(e) == EngineKnown(e) /\ ProcessVersions[Resolve(e.name)] < e.range
EngineAdvisory(e) == ~EngineKnown(e) /\ Resolve(e.name) \notin {"npm", "teleport"}
EntriesOf(m) == IF m.engines.isPlainObject THEN m.engines.entries ELSE <<>>
AsEngineMsg(es) == [i \in 1..Len(es) |-> EngineMsg(Resolve(es[i].name), es[i].range)]
ExpectedViolations(m) ==
  (IF OsViolation(m) THEN <<OsMsg>> ELSE <<>>) \o
  (IF CpuViolation(m) THEN <<CpuMsg>> ELSE <<>>) \o
  AsEngineMsg(SelectSeq(EntriesOf(m), EngineViolation))
NViol(m) == Len(ExpectedViolations(m))
ExpectedAdvisories(m) ==
  [i \in 1..Len(SelectSeq(EntriesOf(m), EngineAdvisory)) |->
     Resolve(SelectSeq(EntriesOf(m), EngineAdvisory)[i].name)]

\* what the log holds
IsViolationMsg(m) == m.kind \in {"platform", "arch", "engine"}
IsWarnViolation(m) == m.level = "warn" /\ IsViolationMsg(m)
IsError(m) == m.level = "error"
IsInfo(m) == m.level = "info"
IsAdvisory(m) == m.level = "warn" /\ m.kind = "invalid"
Body(ms) == [i \in 1..Len(ms) |-> [kind |-> ms[i].kind, name |-> ms[i].name, range |-> ms[i].range]]
Names(ms) == [i \in 1..Len(ms) |-> ms[i].name]

\* the step check is about to take finds a violation
AtEngine == pc = "engines" /\ info.engines.isPlainObject /\ eidx <= Len(info.engines.entries)
StepViolation ==
  \/ pc = "os" /\ OsViolation(info)
  \/ pc = "cpu" /\ CpuViolation(info)
  \/ AtEngine /\ EngineViolation(info.engines.entries[eidx])

----------------------------------------------------------------------------
\* The matcher.

\* C4 as stated: over every blacklist-only declaration list (every entry
\* '!'-prefixed) and every actual value, isValid is true exactly when actual
\* equals no entry with its '!' stripped.
C4_AsStated ==
  (called /\ AllBang(items)) => (result <=> ~Denied(items, actual))

\* C4, amended: over every non-empty blacklist-only declaration list and every
\* actual value that is not itself an entry of the list, isValid is true
\* exactly when actual equals no entry with its '!' stripped; the empty list
\* yields false.
C4_BlacklistOnly ==
  /\ (called /\ AllBang(items) /\ items # <<>> /\ ~Has(items, actual))
       => (result <=> ~Denied(items, actual))
  /\ (called /\ items = <<>>) => ~result

C4_Witness ==
  /\ called
  /\ Len(items) = 2
  /\ AllBang(items)
  /\ ~Has(items, actual)
  /\ items[1] # <<"!">> \o actual
  /\ items[2] = <<"!">> \o actual
  /\ ~result

\* C5 as stated: isValid returns the same boolean on every permutation of the
\* declaration list.
C5_AsStated ==
  called => \A q \in Perms(items) : isValid(q, actual) = result

\* C5, amended: isValid returns the same boolean on every permutation of the
\* declaration list, provided the list does not hold both actual itself and
\* the entry denying it ('!' followed by actual).
C5_OrderIndependent ==
  (called /\ ~(Has(items, actual) /\ Has(items, Bang(actual))))
    => \A q \in Perms(items) : isValid(q, actual) = result

C5_Witness ==
  /\ called
  /\ Len(items) = 3
  /\ IsBang(items[1]) /\ items[1] # actual
  /\ ~IsBang(items[2]) /\ items[2] # actual
  /\ items[3] = actual
  /\ ~Has(items, Bang(actual))
  /\ result

\* C6 as stated: whenever some plain entry equals actual, isValid is true,
\* whatever blacklist entries the list holds and wherever they are.
C6_AsStated ==
  (called /\ PlainMatch(items, actual)) => result

\* C6, amended: whenever some plain entry equals actual, isValid is true
\* unless an entry denying actual ('!' followed by actual) stands before the
\* first such plain entry, and then it is false.
C6_PlainMatchWins ==
  (called /\ PlainMatch(items, actual))
    => (result <=> ~\E j \in 1..(FirstAt(items, actual) - 1) : items[j] = Bang(actual))

C6_Witness ==
  /\ called
  /\ Len(items) = 3
  /\ IsBang(items[1]) /\ items[1] # Bang(actual)
  /\ ~IsBang(items[2]) /\ items[2] = actual
  /\ items[3] = Bang(actual)
  /\ result

\* C7: over every plain-only declaration list (no entry '!'-prefixed) isValid
\* is true exactly when actual is one of the entries; the empty list yields
\* false for every actual value.
C7_PlainOnly ==
  /\ (called /\ AllPlain(items)) => (result <=> Has(items, actual))
  /\ (called /\ items = <<>>) => ~result

C7_Witness ==
  /\ called
  /\ AllPlain(items)
  /\ Len(items) = 3
  /\ items[1] # actual /\ items[2] # actual /\ items[3] = actual
  /\ result

----------------------------------------------------------------------------
\* The checker.

WarnedViolations == SelectSeq(log, IsWarnViolation)
Errors == SelectSeq(log, IsError)
Infos == SelectSeq(log, IsInfo)
Advisories == SelectSeq(log, IsAdvisory)

\* C1: a manifest whose reference is optional never makes check fail and
\* never gets an error-level message; every violation it has (OS, CPU,
\* engines) is emitted as a warning, and the reference is marked excluded.
C1_OptionalNeverFatal ==
  Optional =>
    /\ thrown = "none"
    /\ pc # "failed"
    /\ Errors = <<>>
    /\ (WarnedViolations # <<>> => idx \in ignored)
    /\ Returned =>
         /\ Body(WarnedViolations) = ExpectedViolations(info)
         /\ (NViol(info) > 0 => idx \in ignored)

C1_Witness ==
  /\ Optional
  /\ Returned
  /\ OsViolation(info)
  /\ CpuViolation(info)
  /\ NViol(info) = 4
  /\ Len(WarnedViolations) = 4
  /\ idx \in ignored

\* C2: for a manifest whose reference is present and not optional, check
\* evaluates OS, CPU and every engine without short-circuit, emits one
\* error-level message per violation, raises the compatibility failure only
\* once all of them are emitted (the raising step emits nothing), and raises
\* it exactly when the manifest has at least one violation.
C2_RequiredCollectsThenFails ==
  /\ [](Required =>
          /\ thrown # "Invariant"
          /\ (thrown = "MessageError" <=> pc = "failed")
          /\ (thrown = "MessageError" =>
                /\ NViol(info) >= 1
                /\ Body(Errors) = ExpectedViolations(info))
          /\ (Returned => NViol(info) = 0 /\ Errors = <<>>))
  /\ [][(Required /\ pc = "engines" /\ ~AtEngine) =>
          /\ (thrown' = "MessageError" <=> NViol(info) >= 1)
          /\ log' = log
          /\ Body(Errors) = ExpectedViolations(info)]_vars

C2_Witness ==
  /\ Required
  /\ pc = "failed"
  /\ thrown = "MessageError"
  /\ OsViolation(info)
  /\ CpuViolation(info)
  /\ Len(Errors) = 4

\* C3: init calls check on the manifests in order and catches nothing: when
\* check fails on manifest k, every manifest before k has been checked to
\* its end, no manifest after k is ever handed to check, and the failure
\* leaves init (no step of init or check follows it).
C3_BatchAbortsAtFirstFailure ==
  /\ [](/\ \A i \in 1..MaxManifests :
             /\ (i < idx => status[i] = "returned")
             /\ (i > idx => status[i] = "unchecked")
        /\ (thrown # "none" <=> pc = "failed")
        /\ (pc = "failed" => idx >= 1 /\ status[idx] = "checking")
        /\ (pc = "done" => thrown = "none" /\ idx = n))
  /\ [][/\ pc # "failed"
        /\ idx' \in {idx, idx + 1}
        /\ \A i \in 1..MaxManifests :
             (status[i] = "unchecked" /\ status'[i] # "unchecked") => i = idx]_vars

C3_Witness ==
  /\ n = 3
  /\ idx = 2
  /\ pc = "failed"
  /\ thrown = "MessageError"
  /\ status[1] = "returned"
  /\ status[2] = "checking"
  /\ status[3] = "unchecked"

\* C8: a declared engine whose alias-resolved name is not in the installed
\* versions is no violation: the step that handles it emits exactly one
\* "appears to be invalid" warning naming it when the name is neither npm nor
\* teleport, and nothing when it is; it never marks the reference, never
\* records a failure and never throws, whatever the reference is. A manifest
\* whose only findings are such engines returns normally and unmarked.
C8_UnknownEngineIsAdvisory ==
  /\ [][(AtEngine /\ ~EngineKnown(info.engines.entries[eidx])) =>
          LET nm == Resolve(info.engines.entries[eidx].name) IN
          /\ log' = IF nm \in {"npm", "teleport"}
                    THEN log
                    ELSE Append(log, Msg("warn", "invalid", nm, 0))
          /\ ignored' = ignored
          /\ didError' = didError
          /\ didIgnore' = didIgnore
          /\ thrown' = "none"
          /\ pc' = "engines"]_vars
  /\ []((CallStarted /\ NViol(info) = 0) =>
          /\ thrown = "none"
          /\ idx \notin ignored
          /\ Advisories = log
          /\ (Returned => Names(log) = ExpectedAdvisories(info)))

C8_Witness ==
  /\ Required
  /\ Returned
  /\ Len(EntriesOf(info)) = 2
  /\ info.engines.entries[1].name = "foo"
  /\ info.engines.entries[2].name = "teleport"
  /\ Len(log) = 1
  /\ log[1].level = "warn" /\ log[1].kind = "invalid" /\ log[1].name = "foo"
  /\ idx \notin ignored

\* C9 as stated: check on a manifest that is missing its reference never
\* returns normally.
C9_AsStated == ~(Missing /\ Returned)

\* C9, amended: a manifest that is missing its reference makes check fail with
\* the internal invariant fault (never the compatibility failure) at its first
\* violation, before any message about that violation is emitted and without
\* marking anything; such a manifest with no violation returns normally, having
\* emitted at most advisory warnings.
C9_MissingReferenceFailsAtFirstViolation ==
  /\ [](Missing =>
          /\ thrown # "MessageError"
          /\ Advisories = log
          /\ idx \notin ignored
          /\ (thrown = "Invariant" => NViol(info) >= 1)
          /\ (Returned => NViol(info) = 0 /\ thrown = "none"))
  /\ [][(Missing /\ StepViolation) =>
          /\ thrown' = "Invariant"
          /\ pc' = "failed"
          /\ log' = log]_vars

C9_Witness ==
  /\ Missing
  /\ thrown = "Invariant"
  /\ pc = "failed"
  /\ ~OsViolation(info)
  /\ ~CpuViolation(info)
  /\ Len(log) = 1
  /\ IsAdvisory(log[1])

\* C10: one call of check on an optional manifest announces the exclusion
\* exactly once: with n >= 1 violations it emits n violation warnings (next
\* to one advisory warning per unknown engine) and one informational
\* message, right after the first violation warning, and the reference is
\* marked; with no violation it emits no informational message and the
\* reference is never marked.
C10_ExclusionAnnouncedOnce ==
  Optional =>
    /\ Len(Infos) <= 1
    /\ (Infos # <<>> <=> WarnedViolations # <<>>)
    /\ (idx \in ignored <=> WarnedViolations # <<>>)
    /\ \A i \in 1..Len(log) :
         IsInfo(log[i]) =>
           /\ i > 1
           /\ IsWarnViolation(log[i - 1])
           /\ \A j \in 1..(i - 2) : ~IsWarnViolation(log[j])
    /\ Returned =>
         /\ Len(WarnedViolations) = NViol(info)
         /\ Len(Infos) = (IF NViol(info) >= 1 THEN 1 ELSE 0)
         /\ (idx \in ignored <=> NViol(info) >= 1)
         /\ Len(log) = NViol(info) + Len(ExpectedAdvisories(info)) + Len(Infos)

C10_Witness ==
  /\ Optional
  /\ Returned
  /\ NViol(info) = 3
  /\ Len(ExpectedAdvisories(info)) = 1
  /\ Len(Infos) = 1
  /\ IsInfo(log[2])
  /\ Len(log) = 5

====
